---- MODULE Spec2Model ----
(***************************************************************************)
(* A model of the dsp crate: discrete signals (src/src/signals.rs), the    *)
(* continuous signal algebra and its sampler (src/src/signal.rs) and the   *)
(* forward / inverse transform wrappers (src/src/fft.rs).                  *)
(*                                                                         *)
(* Complex64 values are modelled by Gaussian integers (re, im integers):   *)
(* every f64 operation the model performs on them (+, -, *, comparison) is *)
(* exact on integers of this size, so the model computes what the code     *)
(* computes on these inputs.  Times handed to the sampler are integer      *)
(* valued f64 for the same reason.                                         *)
(***************************************************************************)
EXTENDS Integers, Sequences, FiniteSets

VARIABLES
    x, res,                       \* discrete signal under test, last call's result
    a, b, nops,                   \* two signals built by sequences of calls
    pc, csig, start, end, step, i, v, size,   \* one call of sample()
    fwd, inv, fsig, spectrum, back, fpc,      \* transform objects and their data
    how,                          \* the calls that built a and b last
    overflow_checks               \* the build: integer overflow checks on (debug) or off

sigVars    == <<x, res>>
eqVars     == <<a, b, nops, how>>
sampleVars == <<pc, csig, start, end, step, i, v, size>>
fftVars    == <<fwd, inv, fsig, spectrum, back, fpc>>
buildVars  == <<overflow_checks>>
vars       == <<sigVars, eqVars, sampleVars, fftVars, buildVars>>

---------------------------------------------------------------------------
(* Bounds of the model *)

\* longest sample vector handed to a discrete-signal operation
MaxLen == 2
\* largest |re|, |im| of an input sample
MaxVal == 1
\* number of calls in a sequence building the two compared signals
MaxOps == 4
\* largest |start|, |end|, |step| handed to sample()
MaxTime == 2
\* pushes after which the model stops following a sample() loop
MaxPush == 6
\* longest vector handed to a transform
FftLen == 4

---------------------------------------------------------------------------
(* Complex64 *)

Cx(r, m) == [re |-> r, im |-> m]
Zero == Cx(0, 0)
One  == Cx(1, 0)
CAdd(p, q) == Cx(p.re + q.re, p.im + q.im)
CSub(p, q) == Cx(p.re - q.re, p.im - q.im)
CMul(p, q) == Cx(p.re * q.re - p.im * q.im, p.re * q.im + p.im * q.re)
CConj(p)   == Cx(p.re, -p.im)
\* Complex64 + f64: the real operand is added to the real part
CAddReal(p, r) == Cx(p.re + r, p.im)

\* a call that returns normally with value val, and one that panics
Ok(val) == [ok |-> TRUE, val |-> val]
Panic   == [ok |-> FALSE, val |-> "panic"]
\* a call whose outcome neither the source nor the specification determines
Unspecified == [ok |-> FALSE, val |-> "unspecified"]

\* all sequences over S of length at most n
SeqsUpTo(S, n) == {<<>>} \cup UNION {[1..k -> S] : k \in 1..n}

---------------------------------------------------------------------------
(* Discrete signal: signals.rs *)

\* Vec<T>[i] with i: usize -- a bounds-checked read, panics past the end
VecIndex(data, n) == IF n >= 0 /\ n < Len(data) THEN Ok(data[n + 1]) ELSE Panic

\* VectorImpl::at(n) of the vectors module: the element at position n
VectorAt(data, n) == VecIndex(data, n)

\* isize.  The values the model handles lie within a short distance of
\* isize::MIN, of zero or of isize::MAX: base names which, off is the distance
\* (off >= 0 from MIN, off <= 0 from MAX).
Isz(base, off) == [base |-> base, off |-> off]
I(n) == Isz("zero", n)
\* i < 0
IsizeNeg(k) == k.base = "min" \/ (k.base = "zero" /\ k.off < 0)
\* i >= s, s being a length cast to isize
IsizeGe(k, s) == k.base = "max" \/ (k.base = "zero" /\ k.off >= s)

\* n - k in isize, n being a loop counter in 0..len.  Only MIN + off with
\* off <= n overflows: with overflow checks the subtraction panics, without
\* them it wraps around.
IsizeSub(n, k) ==
    CASE k.base = "zero" -> Ok(I(n - k.off))
      [] k.base = "max"  -> Ok(Isz("min", n - k.off + 1))
      [] k.base = "min"  ->
            IF n - k.off < 0 THEN Ok(Isz("max", n - k.off + 1))
            ELSE IF overflow_checks THEN Panic
            ELSE Ok(Isz("min", n - k.off))

\* Signal::new
New(data) == [data |-> data, sample_freq |-> Len(data)]

\* a plausible slip: a fixed default rate in place of the sample count
FromRealsDefaultRate(reals) ==
    [data |-> [n \in 1..Len(reals) |-> Cx(reals[n], 0)], sample_freq |-> 1]

\* Signal::from_reals
FromReals(reals) ==
    [data |-> [n \in 1..Len(reals) |-> Cx(reals[n], 0)], sample_freq |-> Len(reals)]

\* Signal::len
SigLen(sig) == Len(sig.data)

\* a plausible slip: `i > s` in place of `i >= s`
GetOffByOne(sig, k) ==
    LET s == Len(sig.data)
    IN  IF IsizeNeg(k) \/ IsizeGe(k, s + 1) THEN Ok(Zero) ELSE VecIndex(sig.data, k.off)

\* Signal::get
Get(sig, k) ==
    LET s == Len(sig.data)
    IN  IF IsizeNeg(k) \/ IsizeGe(k, s) THEN Ok(Zero) ELSE VecIndex(sig.data, k.off)

\* Signal::to_vec
ToVec(sig) == sig.data

\* collects the pushed values of a loop; panics if any read panicked
Collect(rs) ==
    IF \A n \in 1..Len(rs) : rs[n].ok
    THEN Ok(New([n \in 1..Len(rs) |-> rs[n].val]))
    ELSE Panic

\* self.get(n-k): the subtraction, then the read
GetShifted(sig, n, k) ==
    LET d == IsizeSub(n, k)
    IN  IF d.ok THEN Get(sig, d.val) ELSE Panic

\* Signal::shift
Shift(sig, k) ==
    LET s == Len(sig.data)
    IN  Collect([m \in 1..s |-> GetShifted(sig, m - 1, k)])

RECURSIVE IntegrateExclusiveFrom(_, _, _, _)
IntegrateExclusiveFrom(data, n, acc, out) ==
    IF n >= Len(data) THEN Ok(New(out))
    ELSE LET e == VectorAt(data, n)
         IN  IF ~e.ok THEN Panic
             ELSE IntegrateExclusiveFrom(data, n + 1, CAdd(acc, e.val), Append(out, acc))

\* a plausible slip: the sample is pushed before it is added
IntegrateExclusive(sig) == IntegrateExclusiveFrom(sig.data, 0, Zero, <<>>)

\* the loop of Signal::integrate from position n on
RECURSIVE IntegrateFrom(_, _, _, _)
IntegrateFrom(data, n, acc, out) ==
    IF n >= Len(data) THEN Ok(New(out))
    ELSE LET e == VectorAt(data, n)
         IN  IF ~e.ok THEN Panic
             ELSE LET acc2 == CAdd(acc, e.val)
                  IN  IntegrateFrom(data, n + 1, acc2, Append(out, acc2))

\* Signal::integrate
Integrate(sig) == IntegrateFrom(sig.data, 0, Zero, <<>>)

RECURSIVE DifferentiateStaleFrom(_, _, _, _)
DifferentiateStaleFrom(data, n, last, out) ==
    IF n >= Len(data) THEN Ok(New(out))
    ELSE LET e == VectorAt(data, n)
         IN  IF ~e.ok THEN Panic
             ELSE DifferentiateStaleFrom(data, n + 1, last, Append(out, CSub(e.val, last)))

\* a plausible slip: `last` is not updated after the push
DifferentiateStale(sig) == DifferentiateStaleFrom(sig.data, 0, Zero, <<>>)

\* the loop of Signal::differentiate from position n on
RECURSIVE DifferentiateFrom(_, _, _, _)
DifferentiateFrom(data, n, last, out) ==
    IF n >= Len(data) THEN Ok(New(out))
    ELSE LET e == VectorAt(data, n)
         IN  IF ~e.ok THEN Panic
             ELSE DifferentiateFrom(data, n + 1, e.val, Append(out, CSub(e.val, last)))

\* Signal::differentiate
Differentiate(sig) == DifferentiateFrom(sig.data, 0, Zero, <<>>)

\* the fold of Signal::energy over data[n..]
RECURSIVE EnergyFrom(_, _, _)
EnergyFrom(data, n, acc) ==
    IF n > Len(data) THEN acc
    ELSE EnergyFrom(data, n + 1, acc + CMul(data[n], CConj(data[n])).re)

\* Signal::energy
Energy(sig) == EnergyFrom(sig.data, 1, 0)

\* f64 division num / den of two integer-valued operands: the exact quotient
\* as a fraction, or what IEEE 754 gives for a zero divisor
FloatDiv(num, den) ==
    IF den # 0 THEN [kind |-> "num", num |-> num, den |-> den]
    ELSE IF num = 0 THEN [kind |-> "nan", num |-> 0, den |-> 0]
    ELSE IF num > 0 THEN [kind |-> "inf", num |-> 1, den |-> 0]
    ELSE [kind |-> "inf", num |-> -1, den |-> 0]

\* Signal::power: returns the quotient whatever it is, no check of the length
Power(sig) == Ok(FloatDiv(Energy(sig), Len(sig.data)))

\* Signal::add_noise, noise[n] being the n-th draw of the normal source
AddNoise(sig, noise) ==
    [data |-> [n \in 1..Len(sig.data) |-> CAddReal(sig.data[n], noise[n])],
     sample_freq |-> sig.sample_freq]

\* derive(PartialEq) on Signal: every field is compared
SignalEq(s1, s2) == s1.data = s2.data /\ s1.sample_freq = s2.sample_freq

---------------------------------------------------------------------------
(* Continuous signal: signal.rs.  A signal is the closure its factory     *)
(* built, written as the term that names it.                              *)

\* one step of a closure: a generator, or a combinator applied to the values
\* of the signals it captured
Tok(op, k) == [op |-> op, k |-> k]

impulse == <<Tok("impulse", Zero)>>
unitStep == <<Tok("step", Zero)>>
add(s1, s2) == s1 \o s2 \o <<Tok("add", Zero)>>
scale(s, k) == s \o <<Tok("scale", k)>>
modulate(s, carrier) == s \o carrier \o <<Tok("modulate", Zero)>>

\* the values of the closures evaluated so far, innermost last
RECURSIVE Eval(_, _, _, _)
Eval(s, n, t, st) ==
    IF n > Len(s) THEN st
    ELSE LET tok == s[n]
             top == st[Len(st)]
             below == st[Len(st) - 1]
         IN  CASE tok.op = "impulse" ->
                    Eval(s, n + 1, t, Append(st, IF t = 0 THEN One ELSE Zero))
               [] tok.op = "step" ->
                    Eval(s, n + 1, t, Append(st, IF t >= 0 THEN One ELSE Zero))
               [] tok.op = "add" ->
                    Eval(s, n + 1, t, Append(SubSeq(st, 1, Len(st) - 2), CAdd(below, top)))
               [] tok.op = "scale" ->
                    Eval(s, n + 1, t, Append(SubSeq(st, 1, Len(st) - 1), CMul(tok.k, top)))
               [] tok.op = "modulate" ->
                    Eval(s, n + 1, t, Append(SubSeq(st, 1, Len(st) - 2), CMul(below, top)))

\* Signal::at: runs the closure on the time t
At(s, t) == Eval(s, 1, t, <<>>)[1]

\* `f as usize` of an f64: truncation toward zero, saturating; NaN is 0.
\* A saturated value (usize::MAX) is kept apart from the small ones.
FloatToUsize(f) ==
    CASE f.kind = "nan" -> [sat |-> FALSE, n |-> 0]
      [] f.kind = "inf" -> IF f.num > 0 THEN [sat |-> TRUE, n |-> 0]
                                        ELSE [sat |-> FALSE, n |-> 0]
      [] f.kind = "num" ->
            IF (f.num > 0 /\ f.den > 0) THEN [sat |-> FALSE, n |-> f.num \div f.den]
            ELSE IF (f.num < 0 /\ f.den < 0)
                 THEN [sat |-> FALSE, n |-> (-f.num) \div (-f.den)]
            ELSE [sat |-> FALSE, n |-> 0]

\* sample(): `let size = ((end-start)/step) as usize`
SampleSize(t0, t1, dt) == FloatToUsize(FloatDiv(t1 - t0, dt))

\* Vec::with_capacity(n) panics ("capacity overflow") when n elements of 16
\* bytes exceed isize::MAX bytes; of the sizes of the model only the saturated one does
WithCapacityPanics(n) == n.sat

\* a plausible slip: `i <= end`
LoopCondInclusive(t, t1) == t <= t1

\* sample(): the loop condition `i < end`
LoopCond(t, t1) == t < t1

---------------------------------------------------------------------------
(* Transform: fft.rs, with the transform primitive (rustfft's FFT) and the *)
(* Spectrum type it uses.                                                  *)

\* sizes whose twiddle factors are 1, -1, i, -i, so that the transform of
\* Gaussian integers is computed exactly
FFTSizes == {1, 2, 4}

\* i^e
IPow(e) ==
    CASE e % 4 = 0 -> Cx(1, 0)
      [] e % 4 = 1 -> Cx(0, 1)
      [] e % 4 = 2 -> Cx(-1, 0)
      [] e % 4 = 3 -> Cx(0, -1)

\* exp(-2 pi i m / n) (forward) or exp(+2 pi i m / n) (inverse), n in FFTSizes
Twiddle(n, m, inverse) ==
    LET q == (m * (4 \div n)) % 4
    IN  IF inverse THEN IPow(q) ELSE IPow((4 - q) % 4)

RECURSIVE DftSum(_, _, _, _)
DftSum(data, k, n, inverse) ==
    IF n > Len(data) THEN Zero
    ELSE CAdd(CMul(data[n], Twiddle(Len(data), (n - 1) * k, inverse)),
              DftSum(data, k, n + 1, inverse))

\* the unnormalised discrete Fourier transform of data
Dft(data, inverse) == [k \in 1..Len(data) |-> DftSum(data, k - 1, 1, inverse)]

\* FFT::new(len, inverse)
FFT_new(len, inverse) == [len |-> len, inverse |-> inverse]

\* FFT::process(signal, spectrum): the transform of a sequence of the length
\* given to the constructor, of equal length.  What the primitive does with
\* buffers of another length is not stated.
FFT_process(fft, signal, out) ==
    IF Len(signal) # Len(out) \/ Len(signal) # fft.len THEN Unspecified
    ELSE Ok(Dft(signal, fft.inverse))

\* Spectrum::new
Spectrum_new(data, sample_rate) == [data |-> data, sample_rate |-> sample_rate]

\* Spectrum::to_vec
Spectrum_to_vec(sp) == sp.data

\* The Signal that fft.rs is written for: it has a public field sample_rate,
\* and from_reals takes the rate as its second argument.  Signal::new sets the
\* rate to the sample count.
RatedSignal_new(data) == [data |-> data, sample_rate |-> Len(data)]
RatedSignal_from_reals(reals, sample_rate) ==
    [data |-> [n \in 1..Len(reals) |-> Cx(reals[n], 0)], sample_rate |-> sample_rate]

\* ForwardFFT::new
ForwardFFT_new(sample_size) == [fft |-> FFT_new(sample_size, FALSE)]

\* a plausible slip: the direction flag copied from ForwardFFT::new
InverseFFT_newForward(sample_size) == [fft |-> FFT_new(sample_size, FALSE)]

\* InverseFFT::new
InverseFFT_new(sample_size) == [fft |-> FFT_new(sample_size, TRUE)]

\* ForwardFFT::process: no length check of its own; the outcome of a call on a
\* signal of another length is the primitive's
ForwardFFT_process(self, sig) ==
    LET raw_vec == ToVec(sig)
        out == raw_vec
        r == FFT_process(self.fft, raw_vec, out)
    IN  IF r.ok THEN Ok(Spectrum_new(r.val, sig.sample_rate)) ELSE r

\* InverseFFT::process
InverseFFT_process(self, sp) ==
    LET raw_vec == Spectrum_to_vec(sp)
        out == raw_vec
        r == FFT_process(self.fft, raw_vec, out)
    IN  IF r.ok THEN Ok(New(r.val)) ELSE r

---------------------------------------------------------------------------
(* Input sets *)

Range == (-MaxVal)..MaxVal
Samples == {Cx(r, m) : r \in Range, m \in Range}
Vectors == SeqsUpTo(Samples, MaxLen)
RealVectors == SeqsUpTo(Range, MaxLen)
\* indices and shifts: negative, in range, and past the end
Indices ==
    {I(n) : n \in (-(MaxLen + 1))..(MaxLen + 1)}
    \cup {Isz("min", d) : d \in 0..MaxLen}
    \cup {Isz("max", -d) : d \in 0..MaxLen}
\* draws of the normal noise source
NoiseVals == {-1, 0, 1}
InRange(sig) == \A n \in 1..Len(sig.data) : sig.data[n] \in Samples

\* inputs of the calls that build the two compared signals
EqVectors == {<<>>, <<Zero>>, <<Zero, Zero>>, <<One, Cx(0, 1)>>}
EqRealVectors == {<<>>, <<0>>, <<0, 0>>, <<1, 0>>}
EqNoise == {0, 1}
EqShifts == {I(-1), I(0), I(1), Isz("min", 0)}

Times == (-MaxTime)..MaxTime
BaseSignals == {impulse, unitStep}
Scalars == {Cx(2, 0), Cx(5, 3)}
ContinuousSignals ==
    BaseSignals
    \cup {add(s1, s2) : s1 \in BaseSignals, s2 \in BaseSignals}
    \cup {scale(s, k) : s \in BaseSignals, k \in Scalars}
    \cup {modulate(s, c) : s \in BaseSignals, c \in {unitStep, scale(unitStep, Cx(0, 1))}}

FftSamples == {Zero, One, Cx(0, 1), Cx(-1, 1)}
FftVectors == SeqsUpTo(FftSamples, FftLen)
FftRealVectors == SeqsUpTo({0, 1}, FftLen)
FftRates == {1, 4, 8}

\* values of the variables a specification does not use
NoOut == [ok |-> FALSE, int |-> 0, cx |-> Zero, sig |-> New(<<>>), fl |-> FloatDiv(0, 1)]
NoCall == [op |-> "none", arg |-> I(0), noise |-> <<>>, out |-> NoOut]
NoSpectrum == [st |-> "none", val |-> Spectrum_new(<<>>, 0)]
NoSignal == [st |-> "none", val |-> New(<<>>)]
\* what a call returned, as the caller holds it
OutInt(r) == IF r.ok THEN [NoOut EXCEPT !.ok = TRUE, !.int = r.val] ELSE NoOut
OutCx(r) == IF r.ok THEN [NoOut EXCEPT !.ok = TRUE, !.cx = r.val] ELSE NoOut
OutSig(r) == IF r.ok THEN [NoOut EXCEPT !.ok = TRUE, !.sig = r.val] ELSE NoOut
OutFloat(r) == IF r.ok THEN [NoOut EXCEPT !.ok = TRUE, !.fl = r.val] ELSE NoOut
Held(r, none) == IF r.ok THEN [st |-> "ok", val |-> r.val] ELSE [none EXCEPT !.st = r.val]
SigIdle == x = New(<<>>) /\ res = NoCall
EqIdle == a = New(<<>>) /\ b = New(<<>>) /\ nops = 0 /\ how = <<"new", "new">>
SampleIdle ==
    /\ pc = "idle" /\ csig = impulse /\ start = 0 /\ end = 0 /\ step = 0
    /\ i = 0 /\ v = <<>> /\ size = [sat |-> FALSE, n |-> 0]
FftIdle ==
    /\ fwd = ForwardFFT_new(1) /\ inv = InverseFFT_new(1) /\ fsig = RatedSignal_new(<<>>)
    /\ spectrum = NoSpectrum /\ back = NoSignal /\ fpc = "idle"

---------------------------------------------------------------------------
(* Calls on one discrete signal.  x is the receiver, res the last call     *)
(* with its argument and what it returned; the caller then goes on with    *)
(* the receiver or with the signal the call returned.                      *)

SigInit ==
    /\ x \in {New(d) : d \in Vectors} \cup {FromReals(d) : d \in RealVectors}
    /\ res = NoCall
    /\ overflow_checks \in BOOLEAN
    /\ EqIdle /\ SampleIdle /\ FftIdle

\* the record of a call
Made(op, arg, noise, out) == [op |-> op, arg |-> arg, noise |-> noise, out |-> out]

CallLen ==
    /\ res.op = "none"
    /\ res' = Made("len", I(0), <<>>, OutInt(Ok(SigLen(x))))
    /\ UNCHANGED <<x, eqVars, sampleVars, fftVars, buildVars>>

CallGet ==
    /\ res.op = "none"
    /\ \E k \in Indices : res' = Made("get", k, <<>>, OutCx(Get(x, k)))
    /\ UNCHANGED <<x, eqVars, sampleVars, fftVars, buildVars>>

CallShift ==
    /\ res.op = "none"
    /\ \E k \in Indices : res' = Made("shift", k, <<>>, OutSig(Shift(x, k)))
    /\ UNCHANGED <<x, eqVars, sampleVars, fftVars, buildVars>>

CallIntegrate ==
    /\ res.op = "none"
    /\ res' = Made("integrate", I(0), <<>>, OutSig(Integrate(x)))
    /\ UNCHANGED <<x, eqVars, sampleVars, fftVars, buildVars>>

CallDifferentiate ==
    /\ res.op = "none"
    /\ res' = Made("differentiate", I(0), <<>>, OutSig(Differentiate(x)))
    /\ UNCHANGED <<x, eqVars, sampleVars, fftVars, buildVars>>

CallEnergy ==
    /\ res.op = "none"
    /\ res' = Made("energy", I(0), <<>>, OutInt(Ok(Energy(x))))
    /\ UNCHANGED <<x, eqVars, sampleVars, fftVars, buildVars>>

CallPower ==
    /\ res.op = "none"
    /\ res' = Made("power", I(0), <<>>, OutFloat(Power(x)))
    /\ UNCHANGED <<x, eqVars, sampleVars, fftVars, buildVars>>

CallAddNoise ==
    /\ res.op = "none"
    /\ \E noise \in SeqsUpTo(NoiseVals, Len(x.data)) :
          /\ Len(noise) = Len(x.data)
          /\ res' = Made("add_noise", I(0), noise, OutSig(Ok(AddNoise(x, noise))))
    /\ UNCHANGED <<x, eqVars, sampleVars, fftVars, buildVars>>

SignalValued(op) == op \in {"shift", "integrate", "differentiate", "add_noise"}

\* the caller goes on with the returned signal
TakeResult ==
    /\ SignalValued(res.op) /\ res.out.ok /\ InRange(res.out.sig)
    /\ x' = res.out.sig
    /\ res' = NoCall
    /\ UNCHANGED <<eqVars, sampleVars, fftVars, buildVars>>

\* the caller goes on with the receiver
KeepReceiver ==
    /\ res.op # "none"
    /\ x' = x
    /\ res' = NoCall
    /\ UNCHANGED <<eqVars, sampleVars, fftVars, buildVars>>

SigNext ==
    \/ CallLen \/ CallGet \/ CallShift \/ CallIntegrate \/ CallDifferentiate
    \/ CallEnergy \/ CallPower \/ CallAddNoise \/ TakeResult \/ KeepReceiver

SpecSig == SigInit /\ [][SigNext]_vars

---------------------------------------------------------------------------
(* Claims on one discrete signal, checked under SpecSig *)

\* the stored sample at position n (from 0) or zero outside the stored range
SampleOrZero(data, n) == IF 0 <= n /\ n < Len(data) THEN data[n + 1] ELSE Zero

\* the sample at the isize position k: positions near isize::MIN or
\* isize::MAX are outside every stored range
SampleOrZeroAt(data, k) == IF k.base = "zero" THEN SampleOrZero(data, k.off) ELSE Zero

\* the sample at the position n - k of the integers (no overflow), n >= 0
SampleOrZeroBack(data, n, k) ==
    IF k.base = "zero" THEN SampleOrZero(data, n - k.off) ELSE Zero

\* C1: for every signal x and every integer index (negative, in range or past
\* the end) x.get(index) returns normally, with the stored sample when
\* 0 <= index < x.len() and with the zero complex value otherwise.
C1_GetZeroFill ==
    res.op = "get" =>
        /\ res.out.ok
        /\ res.out.cx = SampleOrZeroAt(x.data, res.arg)

\* a read one past the end of a signal whose samples are all non-zero
C1_Witness ==
    /\ res.op = "get" /\ res.arg = I(Len(x.data)) /\ Len(x.data) >= 2
    /\ \A n \in 1..Len(x.data) : x.data[n] # Zero
    /\ res.out.ok /\ res.out.cx = Zero

\* C2: for every integer k, x.shift(k) returns a signal of x's length whose
\* n-th sample is x.get(n - k), zero where n - k is outside the stored range
\* (no wrap-around); x.shift(0) == x, and x.shift(1).get(0) is zero for a
\* non-empty x.
C2_ShiftClips ==
    res.op = "shift" =>
        /\ res.out.ok
        /\ Len(res.out.sig.data) = Len(x.data)
        /\ \A n \in 0..(Len(x.data) - 1) :
              res.out.sig.data[n + 1] = SampleOrZeroBack(x.data, n, res.arg)
        /\ (res.arg = I(0) => SignalEq(res.out.sig, x))
        /\ (res.arg = I(1) /\ Len(x.data) >= 1 => res.out.sig.data[1] = Zero)

\* some n - k of the loop of shift(k) leaves isize: k <= isize::MIN + len - 1
ShiftOverflows(len, k) == k.base = "min" /\ k.off <= len - 1

\* C2 where it holds: the same, for every k whose n - k stays in isize or in
\* a build without overflow checks; with the checks on, the other k panic.
C2_ShiftClipsNoOverflow ==
    /\ (res.op = "shift" /\ ~(overflow_checks /\ ShiftOverflows(Len(x.data), res.arg)))
          => C2_ShiftClips
    /\ (res.op = "shift" /\ overflow_checks /\ ShiftOverflows(Len(x.data), res.arg))
          => ~res.out.ok

\* the sum of the first n samples
RECURSIVE PrefixSum(_, _)
PrefixSum(data, n) == IF n = 0 THEN Zero ELSE CAdd(PrefixSum(data, n - 1), data[n])

\* C3: x.integrate() has x's length and its n-th sample is the sum of
\* x.get(k) for k = 0..n.
C3_IntegrateRunningSum ==
    res.op = "integrate" =>
        /\ res.out.ok
        /\ Len(res.out.sig.data) = Len(x.data)
        /\ \A n \in 1..Len(x.data) : res.out.sig.data[n] = PrefixSum(x.data, n)

\* a running sum over two non-zero samples
C3_Witness ==
    /\ res.op = "integrate" /\ Len(x.data) >= 2
    /\ x.data[1] # Zero /\ x.data[2] # Zero
    /\ res.out.ok /\ res.out.sig.data[2] = CAdd(x.data[1], x.data[2])

\* C4: x.differentiate() has x's length and its n-th sample is
\* x.get(n) - x.get(n - 1), the predecessor of the first sample being zero, so
\* that its first sample is x.get(0).
C4_DifferentiateFirstDifference ==
    res.op = "differentiate" =>
        /\ res.out.ok
        /\ Len(res.out.sig.data) = Len(x.data)
        /\ \A n \in 0..(Len(x.data) - 1) :
              res.out.sig.data[n + 1] =
                  CSub(SampleOrZero(x.data, n), SampleOrZero(x.data, n - 1))
        /\ (Len(x.data) >= 1 => res.out.sig.data[1] = x.data[1])

\* a first difference over two different non-zero samples
C4_Witness ==
    /\ res.op = "differentiate" /\ Len(x.data) >= 2
    /\ x.data[1] # Zero /\ x.data[2] # x.data[1]
    /\ res.out.ok /\ res.out.sig.data[2] = CSub(x.data[2], x.data[1])

\* the sum of re^2 + im^2 over the first n samples
RECURSIVE SumSquares(_, _)
SumSquares(data, n) ==
    IF n = 0 THEN 0
    ELSE SumSquares(data, n - 1) + data[n].re * data[n].re + data[n].im * data[n].im

\* C10: for a non-empty x, x.energy() is the sum of re^2 + im^2 over the
\* samples (non-negative) and x.power() is x.energy() / x.len(); for the empty
\* signal power() is reported as an error, never returned as NaN or zero.
C10_PowerContract ==
    /\ (res.op = "energy" /\ Len(x.data) >= 1) =>
          /\ res.out.ok
          /\ res.out.int = SumSquares(x.data, Len(x.data))
          /\ res.out.int >= 0
    /\ (res.op = "power" /\ Len(x.data) >= 1) =>
          /\ res.out.ok
          /\ res.out.fl.kind = "num"
          /\ res.out.fl.num = SumSquares(x.data, Len(x.data))
          /\ res.out.fl.den = Len(x.data)
    /\ (res.op = "power" /\ Len(x.data) = 0) => ~res.out.ok

---------------------------------------------------------------------------
(* One call of sample(signal, start, end, step), statement by statement   *)

SampleInit ==
    /\ pc = "call"
    /\ csig \in ContinuousSignals
    /\ start \in Times /\ end \in Times /\ step \in Times
    /\ i = 0 /\ v = <<>> /\ size = [sat |-> FALSE, n |-> 0]
    /\ overflow_checks = TRUE
    /\ SigIdle /\ EqIdle /\ FftIdle

\* `let size = ...; let mut v = Vec::with_capacity(size); let mut i = start;`
SampleEnter ==
    /\ pc = "call"
    /\ size' = SampleSize(start, end, step)
    /\ IF WithCapacityPanics(size')
       THEN pc' = "panic" /\ UNCHANGED <<i, v>>
       ELSE pc' = "loop" /\ i' = start /\ v' = <<>>
    /\ UNCHANGED <<csig, start, end, step, sigVars, eqVars, fftVars, buildVars>>

\* one turn of `while i < end { v.push(signal.at(i)); i += step; }`,
\* followed for MaxPush turns
SampleLoop ==
    /\ pc = "loop"
    /\ LoopCond(i, end)
    /\ Len(v) < MaxPush
    /\ v' = Append(v, At(csig, i))
    /\ i' = i + step
    /\ UNCHANGED <<pc, csig, start, end, step, size, sigVars, eqVars, fftVars, buildVars>>

\* the loop is left and v returned
SampleReturn ==
    /\ pc = "loop"
    /\ ~LoopCond(i, end)
    /\ pc' = "done"
    /\ UNCHANGED <<csig, start, end, step, i, v, size, sigVars, eqVars, fftVars, buildVars>>

SampleNext == SampleEnter \/ SampleLoop \/ SampleReturn

SpecSample == SampleInit /\ [][SampleNext]_vars

\* the least integer not below n / d, and the greatest not above it (d > 0)
CeilDiv(n, d) == (n + d - 1) \div d
FloorDiv(n, d) == n \div d

\* the times start, start + step, ... of the first n samples are those the
\* samples of v were taken at, and all lie before end
SampledAtSteps ==
    \A j \in 1..Len(v) :
        /\ v[j] = At(csig, start + (j - 1) * step)
        /\ start + (j - 1) * step < end

\* C5 as stated: for start < end and step > 0 the call returns exactly
\* floor((end - start) / step) samples, the j-th taken at start + j * step,
\* every sampled time being before end.
C5_SampleCountFloor ==
    (pc = "done" /\ start < end /\ step > 0) =>
        /\ Len(v) = FloorDiv(end - start, step)
        /\ SampledAtSteps

\* C5 amended: for start < end and step > 0 (integer valued, so that the
\* additions are exact) the call returns normally with exactly
\* ceil((end - start) / step) samples: every time start + j * step before end
\* is sampled, the j-th sample being the signal at start + j * step; the loop
\* never takes more turns than that.
C5_SampleCountCeil ==
    /\ (start < end /\ step > 0) => pc # "panic"
    /\ (pc = "loop" /\ start < end /\ step > 0) =>
          /\ Len(v) <= CeilDiv(end - start, step)
          /\ Len(v) < MaxPush \/ ~LoopCond(i, end)
    /\ (pc = "done" /\ start < end /\ step > 0) =>
          /\ Len(v) = CeilDiv(end - start, step)
          /\ SampledAtSteps

\* a returned call whose step does not divide the interval: two samples where
\* the quotient's floor is one
C5_Witness ==
    /\ pc = "done" /\ start = -2 /\ end = 1 /\ step = 2
    /\ csig = add(impulse, unitStep)
    /\ v = <<Zero, Cx(2, 0)>>

\* C6: whenever step is not positive or start >= end, the call returns the
\* empty sequence: it neither loops nor fails in another way.
C6_SampleValidated ==
    (pc # "call" /\ (step <= 0 \/ start >= end)) =>
        /\ pc \in {"loop", "done"}
        /\ v = <<>>
        /\ (pc = "loop" => ~LoopCond(i, end))

---------------------------------------------------------------------------
(* A forward transform of a signal followed by an inverse transform of    *)
(* the spectrum, each transform object built for a size of its own        *)

FftInit ==
    /\ fwd \in {ForwardFFT_new(n) : n \in FFTSizes}
    /\ inv \in {InverseFFT_new(n) : n \in FFTSizes}
    /\ fsig \in {RatedSignal_new(d) : d \in FftVectors}
               \cup {RatedSignal_from_reals(d, r) : d \in FftRealVectors, r \in FftRates}
    /\ spectrum = NoSpectrum /\ back = NoSignal /\ fpc = "ready"
    /\ overflow_checks = TRUE
    /\ SigIdle /\ EqIdle /\ SampleIdle

\* ft.process(&signal)
ForwardProcess ==
    /\ fpc = "ready"
    /\ spectrum' = Held(ForwardFFT_process(fwd, fsig), NoSpectrum)
    /\ fpc' = "forward"
    /\ UNCHANGED <<fwd, inv, fsig, back, sigVars, eqVars, sampleVars, buildVars>>

\* ift.process(&spectrum), on the spectrum the forward transform returned
InverseProcess ==
    /\ fpc = "forward" /\ spectrum.st = "ok"
    /\ back' = Held(InverseFFT_process(inv, spectrum.val), NoSignal)
    /\ fpc' = "inverse"
    /\ UNCHANGED <<fwd, inv, fsig, spectrum, sigVars, eqVars, sampleVars, buildVars>>

FftNext == ForwardProcess \/ InverseProcess

SpecFFT == FftInit /\ [][FftNext]_vars

\* C8: for a signal x of length N, a forward transform of size N returns a
\* spectrum of length N that carries x's sample rate, and an inverse transform
\* of size N of that spectrum returns a signal of length N whose samples are
\* those of x times N (the primitive normalises neither direction).
C8_RoundTrip ==
    (/\ Len(fsig.data) = fwd.fft.len
     /\ Len(fsig.data) = inv.fft.len) =>
        /\ fpc \in {"forward", "inverse"} =>
              /\ spectrum.st = "ok"
              /\ Len(spectrum.val.data) = Len(fsig.data)
              /\ spectrum.val.sample_rate = fsig.sample_rate
        /\ fpc = "inverse" =>
              /\ back.st = "ok"
              /\ Len(back.val.data) = Len(fsig.data)
              /\ \A n \in 1..Len(fsig.data) :
                    back.val.data[n] = CMul(Cx(Len(fsig.data), 0), fsig.data[n])

\* a round trip of four different samples
C8_Witness ==
    /\ fpc = "inverse" /\ back.st = "ok"
    /\ fsig.data = <<One, Cx(0, 1), Cx(-1, 1), Zero>>
    /\ back.val.data = <<Cx(4, 0), Cx(0, 4), Cx(-4, 4), Zero>>

---------------------------------------------------------------------------
(* Two signals, each built by a sequence of the public constructors and   *)
(* operations; how names the call that returned each of them               *)

EqInit ==
    /\ a = New(<<>>) /\ b = New(<<>>)
    /\ nops = 0 /\ how = <<"new", "new">>
    /\ overflow_checks \in BOOLEAN
    /\ SigIdle /\ SampleIdle /\ FftIdle

Slots == {1, 2}
Slot(k) == IF k = 1 THEN a ELSE b

\* the signal a call returned takes the place k
Put(k, sig, name) ==
    /\ nops' = nops + 1
    /\ a' = IF k = 1 THEN sig ELSE a
    /\ b' = IF k = 2 THEN sig ELSE b
    /\ how' = [how EXCEPT ![k] = name]
    /\ UNCHANGED <<sigVars, sampleVars, fftVars, buildVars>>

EqNew ==
    /\ nops < MaxOps
    /\ \E k \in Slots, d \in EqVectors : Put(k, New(d), "new")

EqFromReals ==
    /\ nops < MaxOps
    /\ \E k \in Slots, d \in EqRealVectors : Put(k, FromReals(d), "from_reals")

EqShift ==
    /\ nops < MaxOps
    /\ \E k \in Slots, n \in EqShifts :
          /\ Shift(Slot(k), n).ok
          /\ Put(k, Shift(Slot(k), n).val, "shift")

EqIntegrate ==
    /\ nops < MaxOps
    /\ \E k \in Slots :
          /\ Integrate(Slot(k)).ok
          /\ Put(k, Integrate(Slot(k)).val, "integrate")

EqDifferentiate ==
    /\ nops < MaxOps
    /\ \E k \in Slots :
          /\ Differentiate(Slot(k)).ok
          /\ Put(k, Differentiate(Slot(k)).val, "differentiate")

EqAddNoise ==
    /\ nops < MaxOps
    /\ \E k \in Slots :
          \E noise \in SeqsUpTo(EqNoise, Len(Slot(k).data)) :
              /\ Len(noise) = Len(Slot(k).data)
              /\ Put(k, AddNoise(Slot(k), noise), "add_noise")

\* the inverse transform of a spectrum holding the signal's samples
EqInverse ==
    /\ nops < MaxOps
    /\ \E k \in Slots :
          LET sp == Spectrum_new(Slot(k).data, Slot(k).sample_freq)
              r == InverseFFT_process(InverseFFT_new(Len(sp.data)), sp)
          IN  /\ Len(sp.data) \in FFTSizes
              /\ r.ok
              /\ Put(k, r.val, "inverse")

EqNext ==
    \/ EqNew \/ EqFromReals \/ EqShift \/ EqIntegrate \/ EqDifferentiate
    \/ EqAddNoise \/ EqInverse

SpecEq == EqInit /\ [][EqNext]_vars

\* C7: two signals built by any sequence of the public constructors and
\* operations compare equal exactly when their sample sequences have the same
\* length and the same elements: the sample rate never tells apart two signals
\* of identical samples.
C7_EqualityBySamples ==
    SignalEq(a, b) <=>
        /\ Len(a.data) = Len(b.data)
        /\ \A n \in 1..Len(a.data) : a.data[n] = b.data[n]

\* two signals of the same two samples, one from from_reals and one from
\* add_noise, compare equal
C7_Witness ==
    /\ how = <<"from_reals", "add_noise">>
    /\ Len(a.data) = 2 /\ a.data = b.data
    /\ SignalEq(a, b)

====
